---------------------------- MODULE Spec2Model ----------------------------
(***************************************************************************)
(* A state-machine model of logic/src/rapier_world.rs: the PhysicsState    *)
(* wrapper around the rapier2d pipeline and the RapierWorld2D Godot node   *)
(* that spawns boxes, steps the world once per frame and copies the body   *)
(* poses onto the Godot nodes it tracks.                                   *)
(*                                                                         *)
(* Units.  Lengths are integers in hundredths of a Godot unit (19.2 is     *)
(* 1920).  One tick is one rapier step of IntegrationParameters::default() *)
(* (dt = 1/60 s), so a velocity is a length per step and a gravity of g    *)
(* units/s^2 adds g * 100 / 3600 to it per step.  Angles are integers.     *)
(*                                                                         *)
(* The rapier2d pipeline itself is a dependency, not code of this crate:   *)
(* tick models what the crate relies on (static bodies are not integrated, *)
(* dynamic bodies fall under gravity and are pushed out of the static      *)
(* cuboids they penetrate); contacts between two dynamic bodies and        *)
(* angular dynamics are not modelled.                                      *)
(***************************************************************************)
EXTENDS Integers, Sequences, FiniteSets, TLC

VARIABLES
    pc,          \* position of the host's callback sequence
    viewport,    \* <<w, h>> of owner.get_viewport_rect()
    gravity,     \* RapierWorld2D.gravity (#[property])
    bodies,      \* PhysicsState.bodies with the collider of each body
    boxes,       \* RapierWorld2D.boxes: Vec<(RigidBodyHandle, Ref<Node2D>)>
    nodes,       \* the children added to owner, by creation order
    label,       \* text of ../Label: the number shown after "boxes: "
    mouse_press, \* _process local
    pos,         \* _process local
    iter,        \* update_boxes: position of the iterator over boxes
    physicsFlag, \* borrow flag of the RefCell physics (-1 writer, n readers)
    boxesFlag,   \* borrow flag of the RefCell boxes
    panicked,    \* the panic the last exported call unwound with, if any
    events,      \* what the current _process call has done so far
    frames       \* number of _process calls started

vars == <<pc, viewport, gravity, bodies, boxes, nodes, label, mouse_press, pos,
          iter, physicsFlag, boxesFlag, panicked, events, frames>>

---------------------------------------------------------------------------
(* Bounds of the model *)

MaxFrames == 5

MaxBoxes == 3

(* the long fall: frames of a run that spawns in its first frame only, and *)
(* the frame from whose step on the box must lie on the floor              *)
MaxFallFrames == 243

SettleSteps == 240

(* Values the host can supply *)

ViewportSizes == {<<102400, 60000>>, <<80000, 48000>>}

Gravities == {<<0, 98>>, <<0, 0>>, <<-98, 98>>}

(* Transform of the root node of RapierBox.tscn before any update *)
TemplatePoses == {[x |-> 0, y |-> 0, rot |-> 0], [x |-> 700, y |-> -300, rot |-> 45]}

(* What ResourceLoader finds at res://scenes/RapierBox.tscn *)
Resources == {"missing", "not_a_scene", "scene"}

---------------------------------------------------------------------------
(* Program constants *)

BoxHalfExtent == 1920

WallHalfThickness == 1000

NoPos == <<0, 0>>

Abs(n) == IF n < 0 THEN -n ELSE n

(* division rounding toward zero, as the sign-symmetric float product does *)
Trunc(n, d) == IF n >= 0 THEN n \div d ELSE -((-n) \div d)

---------------------------------------------------------------------------
(* PhysicsState *)

(* fault: the handle one past the slot the body went to *)
NextHandle_ahead(bs) == Len(bs) + 1

(* fault: the handle of the body inserted before this one *)
NextHandle_stale(bs) == Len(bs) - 1

(* RigidBodySet::insert on an arena nothing is removed from: the handle is *)
(* the index of the new slot, counted from 0.                              *)
NextHandle(bs) == Len(bs)

HasBody(bs, handle) == handle \in 0 .. Len(bs) - 1

GetBody(bs, handle) == bs[handle + 1]

NewBody(kind, x, y, hw, hh) ==
    [kind |-> kind, x |-> x, y |-> y, rot |-> 0, vx |-> 0, vy |-> 0,
     hw |-> hw, hh |-> hh]

(* fault: the boundary built with new_dynamic *)
add_static_as_dynamic(bs, x, y, w, h) == Append(bs, NewBody("dynamic", x, y, w, h))

add_static(bs, x, y, w, h) == Append(bs, NewBody("static", x, y, w, h))

(* fault: the coordinates of the translation exchanged *)
add_box_transposed(bs, x, y) ==
    [bodies |-> Append(bs, NewBody("dynamic", y, x, BoxHalfExtent, BoxHalfExtent)),
     handle |-> NextHandle(bs)]

add_box(bs, x, y) ==
    [bodies |-> Append(bs, NewBody("dynamic", x, y, BoxHalfExtent, BoxHalfExtent)),
     handle |-> NextHandle(bs)]

PhysicsNew == << >>

(* gravity * dt per step, in model units *)
StepAccel(g) == <<Trunc(g[1] * 100, 3600), Trunc(g[2] * 100, 3600)>>

(* velocity, then position, of a dynamic body over one step *)
Integrate(b, g) ==
    LET a == StepAccel(g)
        vx1 == b.vx + a[1]
        vy1 == b.vy + a[2]
    IN  [b EXCEPT !.vx = vx1, !.vy = vy1, !.x = b.x + vx1, !.y = b.y + vy1]

(* contact of the dynamic cuboid b with the static cuboid s: b is moved    *)
(* out of s along the axis of least penetration and stops along that axis  *)
PushOut(b, s) ==
    LET px == s.hw + b.hw - Abs(b.x - s.x)
        py == s.hh + b.hh - Abs(b.y - s.y)
    IN  IF px <= 0 \/ py <= 0 THEN b
        ELSE IF py <= px
             THEN [b EXCEPT !.y = IF b.y <= s.y THEN s.y - (s.hh + b.hh)
                                  ELSE s.y + (s.hh + b.hh),
                            !.vy = 0]
             ELSE [b EXCEPT !.x = IF b.x <= s.x THEN s.x - (s.hw + b.hw)
                                  ELSE s.x + (s.hw + b.hw),
                            !.vx = 0]

RECURSIVE Contacts(_, _, _)
Contacts(b, bs, k) ==
    IF k > Len(bs) THEN b
    ELSE Contacts(IF bs[k].kind = "static" THEN PushOut(b, bs[k]) ELSE b, bs, k + 1)

StepBody(b, bs, g) ==
    IF b.kind = "dynamic" THEN Contacts(Integrate(b, g), bs, 1) ELSE b

(* fault: the y axis turned upward on the way to rapier *)
RapierGravity_y_up(g) == <<g[1], -g[2]>>

(* na::Vector2::new(gravity.x, gravity.y) *)
RapierGravity(g) == <<g[1], g[2]>>

(* PhysicsPipeline::step over the body set *)
tick(bs, g) == [k \in 1 .. Len(bs) |-> StepBody(bs[k], bs, RapierGravity(g))]

---------------------------------------------------------------------------
(* Godot side: resources, nodes, names *)

Digit(d) == CASE d = 0 -> "0" [] d = 1 -> "1" [] d = 2 -> "2" [] d = 3 -> "3"
              [] d = 4 -> "4" [] d = 5 -> "5" [] d = 6 -> "6" [] d = 7 -> "7"
              [] d = 8 -> "8" [] d = 9 -> "9"

(* Display of a usize: its decimal digits *)
RECURSIVE ToDecimal(_)
ToDecimal(n) == IF n < 10 THEN <<Digit(n)>> ELSE Append(ToDecimal(n \div 10), Digit(n % 10))

(* format!("box_{}", n) *)
FormatBox(n) == <<"b", "o", "x", "_">> \o ToDecimal(n)

(* load_scene: ResourceLoader::load(..)? then cast::<PackedScene>() *)
load_scene(resource) ==
    IF resource = "missing" THEN "None"
    ELSE IF resource = "not_a_scene" THEN "None"
    ELSE "Some"

(* instance_scene: the root of the template, named as the scene names it *)
instance_scene(tpl) == [name |-> <<"R", "a", "p", "i", "e", "r", "B", "o", "x">>,
                        x |-> tpl.x, y |-> tpl.y, rot |-> tpl.rot]

NameTaken(ns, name) == \E k \in 1 .. Len(ns) : ns[k].name = name

(* Node::add_child(node, legible_unique_name = false): a sibling's name is *)
(* never reused, the newcomer is renamed "@name@<n>" instead               *)
add_child(ns, node) ==
    IF NameTaken(ns, node.name)
    THEN Append(ns, [node EXCEPT !.name = <<"@">> \o node.name \o <<"@">> \o ToDecimal(Len(ns))])
    ELSE Append(ns, node)

---------------------------------------------------------------------------
(* RefCell: the borrow flag is 0 when free, -1 under a RefMut and the      *)
(* number of Ref guards otherwise; a refused borrow panics                 *)

CanBorrowMut(flag) == flag = 0

CanBorrow(flag) == flag >= 0

borrow_mut(flag) == flag - 1

borrow(flag) == flag + 1

DropRefMut(flag) == flag + 1

DropRef(flag) == flag - 1

---------------------------------------------------------------------------
(* RapierWorld2D *)

NumKind(bs, kind) == Cardinality({k \in 1 .. Len(bs) : bs[k].kind = kind})

(* where the mouse can be when the click action is pressed *)
SpawnPositions(vp) ==
    { <<vp[1] \div 2, 100>>,
      <<vp[1] \div 2, vp[2] - WallHalfThickness - BoxHalfExtent - 3>>,
      <<WallHalfThickness + BoxHalfExtent + 1, vp[2] \div 2>> }

Event(op, arg) == [op |-> op, arg |-> arg]

(* RapierWorld2D::new, and the value the scene gives the gravity property *)
Init ==
    /\ pc = "uninit"
    /\ viewport = NoPos
    /\ gravity \in Gravities
    /\ bodies = PhysicsNew
    /\ boxes = << >>
    /\ nodes = << >>
    /\ label = -1
    /\ mouse_press = FALSE
    /\ pos = NoPos
    /\ iter = 0
    /\ physicsFlag = 0
    /\ boxesFlag = 0
    /\ panicked = "none"
    /\ events = << >>
    /\ frames = 0

(* fault: the floor centred at 0 with half of the width as half-extent *)
ReadyBodies_half_floor(bs, w, h) ==
    add_static(
        add_static(
            add_static(bs, 0, h, w \div 2, WallHalfThickness),
            0, h \div 2, WallHalfThickness, h),
        w, h \div 2, WallHalfThickness, h)

(* fault: the floor put at y = 0, the top edge of the viewport *)
ReadyBodies_floor_on_top(bs, w, h) ==
    add_static(
        add_static(
            add_static(bs, 0, 0, w, WallHalfThickness),
            0, h \div 2, WallHalfThickness, h),
        w, h \div 2, WallHalfThickness, h)

(* the three add_static calls of _ready *)
ReadyBodies(bs, w, h) ==
    add_static(
        add_static(
            add_static(bs, 0, h, w, WallHalfThickness),
            0, h \div 2, WallHalfThickness, h),
        w, h \div 2, WallHalfThickness, h)

ready(vp) ==
    /\ pc = "uninit"
    /\ CanBorrowMut(physicsFlag)
    /\ viewport' = vp
    /\ bodies' = ReadyBodies(bodies, vp[1], vp[2])
    /\ physicsFlag' = DropRefMut(borrow_mut(physicsFlag))
    /\ pc' = "idle"
    /\ UNCHANGED <<gravity, boxes, nodes, label, mouse_press, pos, iter,
                   boxesFlag, panicked, events, frames>>

(* fault: is_action_just_pressed, the trigger taken on its rising edge *)
process_begin_just_pressed(press, p) ==
    /\ pc = "idle"
    /\ frames < MaxFrames
    /\ press => NumKind(bodies, "dynamic") < MaxBoxes
    /\ frames' = frames + 1
    /\ mouse_press' = press
    /\ pos' = IF press THEN p ELSE NoPos
    /\ events' = << >>
    /\ panicked' = "none"
    /\ pc' = IF press /\ ~mouse_press THEN "spawn" ELSE "tick"
    /\ UNCHANGED <<viewport, gravity, bodies, boxes, nodes, label, iter,
                   physicsFlag, boxesFlag>>

(* _process up to the test of mouse_press; pos is dead when it is false *)
process_begin(press, p) ==
    /\ pc = "idle"
    /\ frames < MaxFrames
    /\ press => NumKind(bodies, "dynamic") < MaxBoxes
    /\ frames' = frames + 1
    /\ mouse_press' = press
    /\ pos' = IF press THEN p ELSE NoPos
    /\ events' = << >>
    /\ panicked' = "none"
    /\ pc' = IF press THEN "spawn" ELSE "tick"
    /\ UNCHANGED <<viewport, gravity, bodies, boxes, nodes, label, iter,
                   physicsFlag, boxesFlag>>

(* fault: the index counted from 1 *)
falling_box_index_from_one(bx) == Len(bx) + 1

falling_box_index(bx) == Len(bx)

(* the node spawn adds to owner and the record it pushes *)
SpawnNode(bx, tpl) == [instance_scene(tpl) EXCEPT !.name = FormatBox(falling_box_index(bx))]

SpawnRecord(handle, ns) == [handle |-> handle, node |-> Len(ns)]

(* spawn: the exported call unwinds when load_scene(..).unwrap() meets None, *)
(* after add_box has inserted the body                                      *)
spawn(resource, tpl) ==
    /\ pc = "spawn"
    /\ LET added == add_box(bodies, pos[1], pos[2])
       IN  IF ~CanBorrowMut(physicsFlag)
           THEN /\ panicked' = "already_borrowed"
                /\ pc' = "idle"
                /\ UNCHANGED <<bodies, boxes, nodes, events, physicsFlag, boxesFlag>>
           ELSE IF ~CanBorrowMut(boxesFlag)
           THEN /\ bodies' = added.bodies
                /\ physicsFlag' = DropRefMut(borrow_mut(physicsFlag))
                /\ panicked' = "already_borrowed"
                /\ pc' = "idle"
                /\ UNCHANGED <<boxes, nodes, events, boxesFlag>>
           ELSE IF load_scene(resource) = "None"
           THEN /\ bodies' = added.bodies
                /\ physicsFlag' = DropRefMut(borrow_mut(physicsFlag))
                /\ boxesFlag' = DropRefMut(borrow_mut(boxesFlag))
                /\ panicked' = "template_not_loaded"
                /\ pc' = "idle"
                /\ UNCHANGED <<boxes, nodes, events>>
           ELSE /\ bodies' = added.bodies
                /\ nodes' = add_child(nodes, SpawnNode(boxes, tpl))
                /\ boxes' = Append(boxes, SpawnRecord(added.handle, nodes'))
                /\ events' = Append(events, Event("spawn", Len(boxes')))
                /\ physicsFlag' = DropRefMut(borrow_mut(physicsFlag))
                /\ boxesFlag' = DropRefMut(borrow_mut(boxesFlag))
                /\ pc' = "label"
                /\ UNCHANGED panicked
    /\ UNCHANGED <<viewport, gravity, label, mouse_press, pos, iter, frames>>

(* the count shown on ../Label after a spawn *)
process_label ==
    /\ pc = "label"
    /\ IF ~CanBorrow(boxesFlag)
       THEN /\ panicked' = "already_borrowed"
            /\ pc' = "idle"
            /\ UNCHANGED <<label, boxesFlag>>
       ELSE /\ label' = Len(boxes)
            /\ boxesFlag' = DropRef(borrow(boxesFlag))
            /\ pc' = "tick"
            /\ UNCHANGED panicked
    /\ UNCHANGED <<viewport, gravity, bodies, boxes, nodes, mouse_press, pos,
                   iter, physicsFlag, events, frames>>

(* fault: the RefMut bound to a local of _process, alive through           *)
(* update_boxes                                                            *)
process_tick_guard_held ==
    /\ pc = "tick"
    /\ IF ~CanBorrowMut(physicsFlag)
       THEN /\ panicked' = "already_borrowed"
            /\ pc' = "idle"
            /\ UNCHANGED <<bodies, events, physicsFlag>>
       ELSE /\ bodies' = tick(bodies, gravity)
            /\ events' = Append(events, Event("step", 0))
            /\ physicsFlag' = borrow_mut(physicsFlag)
            /\ pc' = "update"
            /\ UNCHANGED panicked
    /\ UNCHANGED <<viewport, gravity, boxes, nodes, label, mouse_press, pos,
                   iter, boxesFlag, frames>>

(* self.physics.borrow_mut().tick(self.gravity): the RefMut is a temporary *)
(* of the statement                                                        *)
process_tick ==
    /\ pc = "tick"
    /\ IF ~CanBorrowMut(physicsFlag)
       THEN /\ panicked' = "already_borrowed"
            /\ pc' = "idle"
            /\ UNCHANGED <<bodies, events, physicsFlag>>
       ELSE /\ bodies' = tick(bodies, gravity)
            /\ events' = Append(events, Event("step", 0))
            /\ physicsFlag' = DropRefMut(borrow_mut(physicsFlag))
            /\ pc' = "update"
            /\ UNCHANGED panicked
    /\ UNCHANGED <<viewport, gravity, boxes, nodes, label, mouse_press, pos,
                   iter, boxesFlag, frames>>

(* update_boxes: the two shared borrows, held until it returns *)
update_boxes_begin ==
    /\ pc = "update"
    /\ IF ~CanBorrow(physicsFlag)
       THEN /\ panicked' = "already_borrowed"
            /\ pc' = "idle"
            /\ UNCHANGED <<physicsFlag, boxesFlag, iter>>
       ELSE IF ~CanBorrow(boxesFlag)
       THEN /\ panicked' = "already_borrowed"
            /\ pc' = "idle"
            /\ physicsFlag' = DropRef(borrow(physicsFlag))
            /\ UNCHANGED <<boxesFlag, iter>>
       ELSE /\ physicsFlag' = borrow(physicsFlag)
            /\ boxesFlag' = borrow(boxesFlag)
            /\ iter' = 1
            /\ pc' = "loop"
            /\ UNCHANGED panicked
    /\ UNCHANGED <<viewport, gravity, bodies, boxes, nodes, label, mouse_press,
                   pos, events, frames>>

(* fault: set_rotation is left out *)
SyncNode_position_only(node, body) == [node EXCEPT !.x = body.x, !.y = body.y]

(* set_position and set_rotation of one record's node *)
SyncNode(node, body) == [node EXCEPT !.x = body.x, !.y = body.y, !.rot = body.rot]

(* one turn of the loop of update_boxes; bodies.get(handle).unwrap() *)
update_boxes_iter ==
    /\ pc = "loop"
    /\ iter <= Len(boxes)
    /\ LET b == boxes[iter]
       IN  IF HasBody(bodies, b.handle)
           THEN /\ nodes' = [nodes EXCEPT ![b.node] = SyncNode(@, GetBody(bodies, b.handle))]
                /\ events' = Append(events, Event("read", iter))
                /\ iter' = iter + 1
                /\ UNCHANGED <<pc, panicked, physicsFlag, boxesFlag>>
           ELSE /\ panicked' = "body_not_found"
                /\ pc' = "idle"
                /\ physicsFlag' = DropRef(physicsFlag)
                /\ boxesFlag' = DropRef(boxesFlag)
                /\ UNCHANGED <<nodes, events, iter>>
    /\ UNCHANGED <<viewport, gravity, bodies, boxes, label, mouse_press, pos, frames>>

(* fault: the loop run over boxes.borrow_mut().drain(..) *)
update_boxes_end_drained ==
    /\ pc = "loop"
    /\ iter > Len(boxes)
    /\ physicsFlag' = DropRef(physicsFlag)
    /\ boxesFlag' = DropRef(boxesFlag)
    /\ pc' = "idle"
    /\ boxes' = << >>
    /\ UNCHANGED <<viewport, gravity, bodies, nodes, label, mouse_press,
                   pos, iter, panicked, events, frames>>

(* the loop is over: update_boxes and _process return *)
update_boxes_end ==
    /\ pc = "loop"
    /\ iter > Len(boxes)
    /\ physicsFlag' = DropRef(physicsFlag)
    /\ boxesFlag' = DropRef(boxesFlag)
    /\ pc' = "idle"
    /\ UNCHANGED <<viewport, gravity, bodies, boxes, nodes, label, mouse_press,
                   pos, iter, panicked, events, frames>>

(* _on_button_pressed: the tree changes scene and this node leaves it *)
on_button_pressed ==
    /\ pc = "idle"
    /\ pc' = "changed"
    /\ UNCHANGED <<viewport, gravity, bodies, boxes, nodes, label, mouse_press,
                   pos, iter, physicsFlag, boxesFlag, panicked, events, frames>>

Next ==
    \/ \E vp \in ViewportSizes : ready(vp)
    \/ \E press \in BOOLEAN : \E p \in SpawnPositions(viewport) : process_begin(press, p)
    \/ \E resource \in Resources : \E tpl \in TemplatePoses : spawn(resource, tpl)
    \/ process_label
    \/ process_tick
    \/ update_boxes_begin
    \/ update_boxes_iter
    \/ update_boxes_end
    \/ on_button_pressed

Spec == Init /\ [][Next]_vars

(* _process when the click action is pressed during the first frame at     *)
(* most: one box and a long run of frames                                  *)
process_begin_first(press, p) ==
    /\ pc = "idle"
    /\ frames < MaxFallFrames
    /\ press => frames = 0
    /\ frames' = frames + 1
    /\ mouse_press' = press
    /\ pos' = IF press THEN p ELSE NoPos
    /\ events' = << >>
    /\ panicked' = "none"
    /\ pc' = IF press THEN "spawn" ELSE "tick"
    /\ UNCHANGED <<viewport, gravity, bodies, boxes, nodes, label, iter,
                   physicsFlag, boxesFlag>>

NextSettle ==
    \/ \E vp \in ViewportSizes : ready(vp)
    \/ \E press \in BOOLEAN : \E p \in SpawnPositions(viewport) : process_begin_first(press, p)
    \/ \E resource \in Resources : \E tpl \in TemplatePoses : spawn(resource, tpl)
    \/ process_label
    \/ process_tick
    \/ update_boxes_begin
    \/ update_boxes_iter
    \/ update_boxes_end
    \/ on_button_pressed

SpecSettle == Init /\ [][NextSettle]_vars

---------------------------------------------------------------------------
(* Properties *)

(* positions, in events, of what the current _process call did *)
EventsOf(op) == {k \in 1 .. Len(events) : events[k].op = op}

FrameReturned == pc = "idle" /\ frames > 0

Dynamic(bs) == {k \in 1 .. Len(bs) : bs[k].kind = "dynamic"}

(* C1: when a _process call is over it has stepped the world exactly once, *)
(* a triggered spawn has completed before that step, and every pose read   *)
(* of update_boxes comes after it.                                         *)
C1_StepOncePerFrame ==
    FrameReturned =>
        /\ Cardinality(EventsOf("step")) = 1
        /\ mouse_press => \E s \in EventsOf("spawn") : \A t \in EventsOf("step") : s < t
        /\ \A r \in EventsOf("read") : \A t \in EventsOf("step") : t < r

(* C2: the node of the k-th record (counting from 0) is named "box_k", and *)
(* no two nodes added to owner carry the same name.                        *)
C2_BoxNames ==
    /\ \A k \in 1 .. Len(boxes) : nodes[boxes[k].node].name = FormatBox(k - 1)
    /\ \A j, k \in 1 .. Len(nodes) : j # k => nodes[j].name # nodes[k].name

C2_Witness ==
    /\ Len(boxes) = 2
    /\ boxes[2].handle = boxes[1].handle + 2
    /\ nodes[boxes[2].node].name = <<"b", "o", "x", "_", "1">>

(* C3: there are as many records as nodes added by spawn, no two records   *)
(* hold the same handle, and a record's handle is that of a dynamic body,  *)
(* never of a boundary body.                                               *)
C3_RecordsAndHandles ==
    /\ Len(boxes) = Len(nodes)
    /\ \A j, k \in 1 .. Len(boxes) : j # k => boxes[j].handle # boxes[k].handle
    /\ \A k \in 1 .. Len(boxes) :
          /\ HasBody(bodies, boxes[k].handle)
          /\ GetBody(bodies, boxes[k].handle).kind = "dynamic"

C3_Witness == pc = "idle" /\ Len(boxes) = 3 /\ label = 3

(* C4: a frame whose spawn could not load the template still steps the     *)
(* world and synchronizes every record.                                    *)
C4_FailedSpawnFrameGoesOn ==
    (FrameReturned /\ panicked = "template_not_loaded") =>
        /\ Cardinality(EventsOf("step")) = 1
        /\ Cardinality(EventsOf("read")) = Len(boxes)

(* C5: the world holds exactly one dynamic body per record: no dynamic     *)
(* body is without a record, hence without a node.                         *)
C5_BodiesMatchRecords ==
    /\ Cardinality(Dynamic(bodies)) = Len(boxes)
    /\ \A d \in Dynamic(bodies) : \E k \in 1 .. Len(boxes) : boxes[k].handle = d - 1

(* C6: every handle of the record list is the handle of a body of the      *)
(* world, and the lookup of update_boxes never fails.                      *)
C6_HandlesValid ==
    /\ \A k \in 1 .. Len(boxes) : HasBody(bodies, boxes[k].handle)
    /\ panicked # "body_not_found"

C6_Witness ==
    /\ pc = "loop"
    /\ iter = 3
    /\ Cardinality(EventsOf("read")) = 2
    /\ Cardinality(Dynamic(bodies)) = 3

Synced(k) ==
    LET node == nodes[boxes[k].node]
        body == GetBody(bodies, boxes[k].handle)
    IN  node.x = body.x /\ node.y = body.y /\ node.rot = body.rot

(* C7: once a _process call is over, the node of every record has the      *)
(* position and rotation of the record's body; update_boxes reads the      *)
(* records in list order, all of them when the call has not panicked.      *)
C7_NodesFollowBodies ==
    /\ pc = "idle" => \A k \in 1 .. Len(boxes) : Synced(k)
    /\ (FrameReturned /\ panicked = "none") => Cardinality(EventsOf("read")) = Len(boxes)
    /\ \A r \in EventsOf("read") :
          events[r].arg = Cardinality({q \in EventsOf("read") : q <= r})

C7_Witness ==
    /\ FrameReturned
    /\ mouse_press
    /\ panicked = "none"
    /\ Len(boxes) = 2
    /\ \A k \in 1 .. 2 : GetBody(bodies, boxes[k].handle).vy > 0
    /\ nodes[boxes[2].node].y = pos[2] + GetBody(bodies, boxes[2].handle).vy

FloorTop(bs) == bs[1].y - bs[1].hh

(* the bodies made by add_static: those of _ready, and any static body *)
Boundary(bs) == {k \in 1 .. Len(bs) : k <= 3 \/ bs[k].kind = "static"}

(* C8: no step of the program changes the position or the rotation of a    *)
(* body made by add_static, whatever the gravity and the dynamic bodies in *)
(* contact with it.                                                        *)
C8_StaticBodiesStay ==
    [][\A k \in Boundary(bodies) :
           /\ k <= Len(bodies')
           /\ bodies'[k].x = bodies[k].x
           /\ bodies'[k].y = bodies[k].y
           /\ bodies'[k].rot = bodies[k].rot]_vars

(* a box lies on the floor and another one against the left wall *)
C8_Witness ==
    /\ frames >= 3
    /\ \E d \in Dynamic(bodies) :
          /\ bodies[d].y + bodies[d].hh = FloorTop(bodies)
          /\ bodies[d].vy = 0
    /\ \E d \in Dynamic(bodies) :
          /\ bodies[d].x - bodies[d].hw = bodies[2].x + bodies[2].hw
          /\ bodies[d].vx = 0
          /\ gravity[1] < 0

NewestBodyAtMouse ==
    LET b == bodies[Len(bodies)]
    IN  b.kind = "dynamic" /\ b.x = pos[1] /\ b.y = pos[2] /\ b.rot = 0

(* C9: from the return of spawn to the next step the body it created is at *)
(* the spawn position with rotation zero, and the new record holds its     *)
(* handle; the body of a spawn that failed after add_box is there too.     *)
C9_SpawnPose ==
    /\ (mouse_press /\ pc \in {"label", "tick"}) =>
          /\ NewestBodyAtMouse
          /\ boxes[Len(boxes)].handle = Len(bodies) - 1
    /\ (pc = "idle" /\ panicked = "template_not_loaded") => NewestBodyAtMouse

C9_Witness ==
    /\ mouse_press
    /\ pc = "tick"
    /\ Len(bodies) = 6
    /\ Len(boxes) = 2
    /\ \E d \in Dynamic(bodies) : bodies[d].vy > 0

(* C10: from _ready on the world holds exactly three static bodies: the    *)
(* floor at y = h covering [0, w], the left wall at x = 0 and the right    *)
(* wall at x = w, sized from the viewport; _ready itself adds no dynamic   *)
(* body.                                                                   *)
C10_Boundaries ==
    pc # "uninit" =>
        LET w == viewport[1]
            h == viewport[2]
        IN  /\ NumKind(bodies, "static") = 3
            /\ \A k \in 1 .. 3 : bodies[k].kind = "static"
            /\ bodies[1].y = h
            /\ bodies[1].x - bodies[1].hw <= 0
            /\ bodies[1].x + bodies[1].hw >= w
            /\ bodies[1].hw = w
            /\ bodies[2].x = 0
            /\ bodies[3].x = w
            /\ \A k \in 2 .. 3 : bodies[k].hh = h /\ 2 * bodies[k].y = h
            /\ frames = 0 => Dynamic(bodies) = {}

C10_Witness ==
    /\ pc = "idle"
    /\ frames = 4
    /\ Cardinality(Dynamic(bodies)) = 3
    /\ viewport = <<80000, 48000>>

(* whether the step of body b meets a static cuboid *)
Obstructed(b, bs, g) ==
    Contacts(Integrate(b, RapierGravity(g)), bs, 1) # Integrate(b, RapierGravity(g))

AtRest(b, bs) == b.vy = 0 /\ b.y + BoxHalfExtent = FloorTop(bs)

InFrame == pc \notin {"uninit", "idle", "changed"}

(* C14: a _process call spawns exactly when the click action is pressed,   *)
(* whatever it was in the frame before; a spawn that loads its template    *)
(* adds one dynamic body and one record, and nothing else in a frame       *)
(* changes the record list or the number of bodies.                        *)
C14_LevelTriggered ==
    [][/\ frames' = frames + 1 =>
             /\ pc' = "spawn" <=> mouse_press'
             /\ boxes' = boxes
             /\ bodies' = bodies
       /\ (InFrame /\ pc # "spawn") => (boxes' = boxes /\ Len(bodies') = Len(bodies))
       /\ pc = "spawn" =>
             /\ mouse_press
             /\ \/ /\ pc' = "label"
                   /\ Len(boxes') = Len(boxes) + 1
                   /\ Len(bodies') = Len(bodies) + 1
                   /\ Cardinality(Dynamic(bodies')) = Cardinality(Dynamic(bodies)) + 1
                \/ /\ panicked' = "template_not_loaded"
                   /\ boxes' = boxes]_vars

(* the click action held for three frames in a row: three records *)
C14_Witness ==
    /\ FrameReturned
    /\ frames = 3
    /\ Len(boxes) = 3
    /\ mouse_press

(* C15: every step leaves the record list as it was or longer with the old *)
(* list as its prefix, and no step of tick or update_boxes changes it.     *)
C15_AppendOnly ==
    [][/\ Len(boxes') >= Len(boxes)
       /\ SubSeq(boxes', 1, Len(boxes)) = boxes
       /\ pc \in {"tick", "update", "loop"} => boxes' = boxes]_vars

(* update_boxes returns with the three records a third spawn completed *)
C15_Witness ==
    /\ pc = "loop"
    /\ iter = 4
    /\ Len(boxes) = 3
    /\ mouse_press
    /\ frames = 5

(* C16: no borrow of the physics cell or of the boxes cell is ever refused *)
(* and none is asked for while a conflicting guard is alive: each cell is  *)
(* free where _ready, spawn and tick take their RefMut, free of writers    *)
(* where a Ref is taken, and held only by the Ref guards of update_boxes.  *)
C16_NoBorrowConflict ==
    /\ panicked # "already_borrowed"
    /\ pc \in {"uninit", "spawn", "tick"} => CanBorrowMut(physicsFlag)
    /\ pc = "spawn" => CanBorrowMut(boxesFlag)
    /\ pc \in {"label", "update"} => CanBorrow(boxesFlag)
    /\ pc = "update" => CanBorrow(physicsFlag)
    /\ pc = "loop" => physicsFlag = 1 /\ boxesFlag = 1
    /\ pc # "loop" => physicsFlag = 0 /\ boxesFlag = 0

(* update_boxes holds its two Ref guards in a frame that spawned and       *)
(* stepped, the frame after one whose spawn panicked                       *)
C16_Witness ==
    /\ pc = "loop"
    /\ physicsFlag = 1
    /\ boxesFlag = 1
    /\ mouse_press
    /\ Cardinality(EventsOf("spawn")) = 1
    /\ Cardinality(EventsOf("step")) = 1
    /\ Cardinality(Dynamic(bodies)) > Len(boxes)

===========================================================================
